---- MODULE Spec2Model ----
(***************************************************************************)
(* Model of prepare-sql-query (src/src/index.mjs): the query finishing     *)
(* pipeline prepareSQLQuery with its helpers (removeSpecialSymbols,        *)
(* filtersHelper, createWhereQuery, createMetaQuery, getCountRecords) and  *)
(* the field-graph compiler postgreSqlBuilder / createSqlQueryForBuilder.  *)
(*                                                                         *)
(* SQL text is modelled by TLA+ strings, character for character.  A       *)
(* JavaScript object is a function on its own keys, so an omitted or       *)
(* undefined property is a key missing from the DOMAIN.  A function that   *)
(* can throw is an operator returning [ok |-> FALSE, error |-> ...] or     *)
(* [ok |-> TRUE, value |-> ...].                                           *)
(***************************************************************************)
EXTENDS Integers, Sequences, FiniteSets, TLC

VARIABLES
    pc,      \* "idle" | "awaitDB" | "returned" | "threw": position of the current invocation
    call,    \* [op |-> name of the invoked function, args |-> its arguments]
    locals,  \* prepareSQLQuery's locals that live across its await
    dbLog,   \* DB.query calls made by the current invocation: <<[sql, bindings]>>
    dbReply, \* what the driver answered to the awaited DB.query
    ret,     \* outcome of the invocation: [ok, value] or [ok, error]
    heap,    \* the objects callers share by reference, by name: schemas, rules, where, filters, meta
    calls    \* the invocations in flight over the shared objects, one per caller

vars == <<pc, call, locals, dbLog, dbReply, ret, heap, calls>>

(***************************************************************************)
(* Bounds of the explored inputs.                                          *)
(***************************************************************************)
MaxLen == 4        \* length of the strings handed to removeSpecialSymbols
MaxWhere == 3      \* length of the condition lists handed to createWhereQuery
MaxBase == 1       \* length of the base `where` list handed to prepareSQLQuery
MaxFilters == 2    \* number of keys of the `filters` object
MaxFields == 2     \* length of the field list handed to postgreSqlBuilder
MaxCalls == 2      \* callers with an invocation in flight over the shared objects

(***************************************************************************)
(* JavaScript string primitives.                                           *)
(***************************************************************************)
Char(s, i) == SubSeq(s, i, i)

startsWith(s, p) == Len(s) >= Len(p) /\ SubSeq(s, 1, Len(p)) = p

endsWith(s, p) == Len(s) >= Len(p) /\ SubSeq(s, Len(s) - Len(p) + 1, Len(s)) = p

\* positions at which p occurs in s
Occurrences(s, p) == {i \in 1..(Len(s) - Len(p) + 1) : SubSeq(s, i, i + Len(p) - 1) = p}

includes(s, p) == Occurrences(s, p) # {}

Min(S) == CHOOSE m \in S : \A n \in S : m <= n

\* String.prototype.replaceAll(pat, rep) for a non-empty literal pattern
RECURSIVE replaceAll(_, _, _)
replaceAll(s, pat, rep) ==
    IF Occurrences(s, pat) = {} THEN s
    ELSE LET i == Min(Occurrences(s, pat))
         IN  SubSeq(s, 1, i - 1) \o rep
                 \o replaceAll(SubSeq(s, i + Len(pat), Len(s)), pat, rep)

WhiteSpace == {" ", "\t", "\n"}

\* String.prototype.trim()
RECURSIVE trim(_)
trim(s) ==
    IF s = "" THEN s
    ELSE IF Char(s, 1) \in WhiteSpace THEN trim(SubSeq(s, 2, Len(s)))
    ELSE IF Char(s, Len(s)) \in WhiteSpace THEN trim(SubSeq(s, 1, Len(s) - 1))
    ELSE s

LowerCase == "abcdefghijklmnopqrstuvwxyz"
UpperCase == "ABCDEFGHIJKLMNOPQRSTUVWXYZ"

toUpperChar(c) ==
    IF includes(LowerCase, c)
    THEN Char(UpperCase, Min(Occurrences(LowerCase, c)))
    ELSE c

\* String.prototype.toUpperCase()
RECURSIVE toUpperCase(_)
toUpperCase(s) ==
    IF s = "" THEN s
    ELSE toUpperChar(Char(s, 1)) \o toUpperCase(SubSeq(s, 2, Len(s)))

Digits == "0123456789"

isDigit(c) == Len(c) = 1 /\ includes(Digits, c)

\* parseInt of a string of decimal digits
RECURSIVE parseInt(_)
parseInt(s) ==
    IF s = "" THEN 0
    ELSE 10 * parseInt(SubSeq(s, 1, Len(s) - 1))
             + (Min(Occurrences(Digits, Char(s, Len(s)))) - 1)

(***************************************************************************)
(* removeSpecialSymbols: search.trim().replace(regexp, '').                *)
(* The character class of the regexp; its one non-ASCII member (U+2116)    *)
(* cannot be written in a TLA+ string and is left out of the alphabet.     *)
(***************************************************************************)
regexp == "][}{!\\<|>,\"#&*+?`$)(^%~':;="

\* s.replace(/[class]/g, '')
RECURSIVE removeClass(_, _)
removeClass(s, class) ==
    IF s = "" THEN s
    ELSE (IF includes(class, Char(s, 1)) THEN "" ELSE Char(s, 1))
             \o removeClass(SubSeq(s, 2, Len(s)), class)

removeSpecialSymbols(search) == removeClass(trim(search), regexp)

(***************************************************************************)
(* Outcomes of a call.                                                     *)
(***************************************************************************)
Ok(v) == [ok |-> TRUE, value |-> v]
Throw(e) == [ok |-> FALSE, error |-> e]

Finish(op, args, r) ==
    /\ call' = [op |-> op, args |-> args]
    /\ ret' = r
    /\ pc' = IF r.ok THEN "returned" ELSE "threw"

(***************************************************************************)
(* JavaScript values.  A string-valued parameter that is null, undefined   *)
(* or '' is only ever tested for truthiness by the code, so all three are  *)
(* the empty string; a null object is the empty function.                  *)
(***************************************************************************)
null == ""
nullObject == <<>>

has(obj, key) == key \in DOMAIN obj

\* { ...a, ...b }
spread(a, b) == b @@ a

\* Array.prototype.join(sep) on an array of strings
RECURSIVE join(_, _)
join(list, sep) ==
    IF Len(list) = 0 THEN ""
    ELSE IF Len(list) = 1 THEN list[1]
    ELSE list[1] \o sep \o join(Tail(list), sep)

\* properties every plain object inherits from Object.prototype
ObjectPrototype ==
    {"constructor", "toString", "toLocaleString", "valueOf", "hasOwnProperty",
     "isPrototypeOf", "propertyIsEnumerable"}

(***************************************************************************)
(* filtersHelper({ filters, rules }).  `filters` is the sequence of the    *)
(* object's <<key, value>> entries in Object.entries order; `rules` maps   *)
(* its own keys to [table, field, query].                                  *)
(***************************************************************************)
\* rules[key]: an own rule, else a member inherited from Object.prototype
\* (which has no table, field or query), else undefined
ruleLookup(rules, key) ==
    IF rules = nullObject THEN Throw("TypeError")
    ELSE IF has(rules, key) THEN Ok(rules[key])
    ELSE IF key \in ObjectPrototype
         THEN Ok([table |-> "undefined", field |-> "undefined", query |-> null])
    ELSE Throw("TypeError")

\* only the first ":value" of the rule's query renamed (replace, not replaceAll)
filterFragment_ReplaceFirst(tableData, key, value) ==
    LET table == tableData.table
        field == tableData.field
        at == Occurrences(tableData.query, ":value")
        query == IF tableData.query = null THEN null
                 ELSE IF at = {} THEN tableData.query
                 ELSE SubSeq(tableData.query, 1, Min(at) - 1) \o ":" \o key
                          \o SubSeq(tableData.query, Min(at) + 6, Len(tableData.query))
    IN  [query |-> IF query # "" THEN query ELSE table \o "." \o field \o " = :" \o key,
         binding |-> (key :> value)]

filterFragment(tableData, key, value) ==
    LET table == tableData.table
        field == tableData.field
        query == IF tableData.query = null THEN null
                 ELSE replaceAll(tableData.query, ":value", ":" \o key)
    IN  [query |-> IF query # "" THEN query ELSE table \o "." \o field \o " = :" \o key,
         binding |-> (key :> value)]

RECURSIVE filtersHelper(_, _)
filtersHelper(filters, rules) ==
    IF Len(filters) = 0 THEN Ok(<<>>)
    ELSE LET key == filters[1][1]
             value == filters[1][2]
             tableData == ruleLookup(rules, key)
             rest == filtersHelper(Tail(filters), rules)
         IN  IF ~tableData.ok THEN tableData
             ELSE IF ~rest.ok THEN rest
             ELSE Ok(<<filterFragment(tableData.value, key, value)>> \o rest.value)

(***************************************************************************)
(* createWhereQuery({ whereConditions, doNotAddWhere }).  A condition is   *)
(* a record with an optional `query` and an optional `binding`.            *)
(***************************************************************************)
RECURSIVE whereConditionsQueries(_)
whereConditionsQueries(whereConditions) ==
    IF Len(whereConditions) = 0 THEN <<>>
    ELSE LET c == whereConditions[1]
         IN  (IF has(c, "query") /\ c.query # "" THEN <<"(" \o c.query \o ")">> ELSE <<>>)
                 \o whereConditionsQueries(Tail(whereConditions))

RECURSIVE whereConditionsBindings(_, _)
whereConditionsBindings(whereConditions, bindings) ==
    IF Len(whereConditions) = 0 THEN bindings
    ELSE LET c == whereConditions[1]
         IN  whereConditionsBindings(Tail(whereConditions),
                 IF has(c, "binding") THEN spread(bindings, c.binding) ELSE bindings)

\* the clause always introduced by WHERE, whatever doNotAddWhere says
createWhereQuery_AlwaysWhere(whereConditions, doNotAddWhere) ==
    LET conditions == whereConditionsQueries(whereConditions)
        bindings == whereConditionsBindings(whereConditions, nullObject)
        joined == IF Len(conditions) > 0 THEN join(conditions, " AND ") ELSE ""
    IN  [where |-> IF Len(joined) > 0 THEN " WHERE " \o joined ELSE joined,
         bindings |-> bindings]

createWhereQuery(whereConditions, doNotAddWhere) ==
    LET conditions == whereConditionsQueries(whereConditions)
        bindings == whereConditionsBindings(whereConditions, nullObject)
        joined == IF Len(conditions) > 0 THEN join(conditions, " AND ") ELSE ""
        where == IF Len(joined) > 0
                 THEN (IF doNotAddWhere THEN " AND " \o joined ELSE " WHERE " \o joined)
                 ELSE joined
    IN  [where |-> where, bindings |-> bindings]

(***************************************************************************)
(* createMetaQuery(meta, table, orderRaw).  `meta` is a record on the      *)
(* supplied ones of perPage, offset, order, orderBy; a null meta reads     *)
(* like the empty record through meta?.x.                                  *)
(***************************************************************************)
PER_PAGE == 25
OFFSET == 0

\* the order compared without upper-casing it first
sortByMetaOrder_CaseSensitive(meta, table) ==
    LET order == IF has(meta, "order") /\ meta.order # "" THEN meta.order ELSE "ASC"
    IN  IF order \notin {"ASC", "DESC"}
        THEN Throw("Incorrect order value! Need use only ASC or DESC!")
        ELSE IF has(meta, "orderBy") /\ meta.orderBy # ""
        THEN LET orderByTrim == removeSpecialSymbols(meta.orderBy)
                 field == IF table # "" THEN table \o "." \o orderByTrim ELSE orderByTrim
             IN  Ok(" ORDER BY " \o field \o " " \o order)
        ELSE IF table # ""
        THEN Ok(" ORDER BY " \o table \o ".id DESC, " \o table \o ".created_at DESC")
        ELSE Ok("")

sortByMetaOrder(meta, table) ==
    LET upper == IF has(meta, "order") THEN toUpperCase(meta.order) ELSE ""
        order == IF upper # "" THEN upper ELSE "ASC"
    IN  IF order # "" /\ order \notin {"ASC", "DESC"}
        THEN Throw("Incorrect order value! Need use only ASC or DESC!")
        ELSE IF has(meta, "orderBy") /\ meta.orderBy # ""
        THEN LET orderByTrim == removeSpecialSymbols(meta.orderBy)
                 field == IF table # "" THEN table \o "." \o orderByTrim ELSE orderByTrim
             IN  Ok(" ORDER BY " \o field \o " " \o order)
        ELSE IF table # ""
        THEN Ok(" ORDER BY " \o table \o ".id DESC, " \o table \o ".created_at DESC")
        ELSE Ok("")

\* the raw ordering without the blank that separates it from the query
sortByOrderRaw_NoBlank(orderRaw) == Ok(orderRaw)

sortByOrderRaw(orderRaw) == Ok(" " \o orderRaw)

\* OFFSET/LIMIT appended to an ordering clause only
createMetaQuery_PaginateOnlyWhenSorted(meta, table, orderRaw) ==
    LET sorted == IF orderRaw = "" THEN sortByMetaOrder(meta, table) ELSE sortByOrderRaw(orderRaw)
        perPage == IF has(meta, "perPage") /\ meta.perPage # 0 THEN meta.perPage ELSE PER_PAGE
        offset == IF has(meta, "offset") /\ meta.offset # 0 THEN meta.offset ELSE OFFSET
    IN  IF ~sorted.ok THEN sorted
        ELSE Ok([sorting |-> IF sorted.value = "" THEN ""
                             ELSE sorted.value \o " OFFSET :offset LIMIT :perPage",
                 bindings |-> [perPage |-> perPage, offset |-> offset]])

createMetaQuery(meta, table, orderRaw) ==
    LET sorted == IF orderRaw = "" THEN sortByMetaOrder(meta, table) ELSE sortByOrderRaw(orderRaw)
        perPage == IF has(meta, "perPage") /\ meta.perPage # 0 THEN meta.perPage ELSE PER_PAGE
        offset == IF has(meta, "offset") /\ meta.offset # 0 THEN meta.offset ELSE OFFSET
    IN  IF ~sorted.ok THEN sorted
        ELSE Ok([sorting |-> sorted.value \o " OFFSET :offset LIMIT :perPage",
                 bindings |-> [perPage |-> perPage, offset |-> offset]])

(***************************************************************************)
(* getCountRecords({ mainQuery, bindings }): the query handed to DB.query, *)
(* and the parse of the reply.  The driver resolves with the rows of the   *)
(* EXPLAIN output, one [queryPlan |-> line] per line of the plan.          *)
(***************************************************************************)
countQuery(mainQuery) == "EXPLAIN (ANALYZE, TIMING OFF) " \o mainQuery

\* the longest run of digits of s that starts at position i
RECURSIVE digitRun(_, _)
digitRun(s, i) ==
    IF i <= Len(s) /\ isDigit(Char(s, i)) THEN Char(s, i) \o digitRun(s, i + 1) ELSE ""

\* s.match(/<lit>(\d)+/g): the matches from left to right; <<>> stands for null
RECURSIVE match(_, _)
match(s, lit) ==
    LET at == {i \in Occurrences(s, lit) : i + Len(lit) <= Len(s) /\ isDigit(Char(s, i + Len(lit)))}
    IN  IF at = {} THEN <<>>
        ELSE LET i == Min(at)
                 m == lit \o digitRun(s, i + Len(lit))
             IN  <<m>> \o match(SubSeq(s, i + Len(m), Len(s)), lit)

regexpRows == "rows="
regexpActual == "actual rows="

\* a reply without an actual-rows annotation counted as zero records
getCountRecords_DefaultZero(countExplain) ==
    IF Len(countExplain) = 0 THEN Ok(0)
    ELSE LET actual == match(countExplain[1].queryPlan, regexpActual)
         IN  IF Len(actual) = 0 THEN Ok(0)
             ELSE Ok(parseInt(replaceAll(match(actual[1], regexpRows)[1], "rows=", "")))

getCountRecords(countExplain) ==
    IF Len(countExplain) = 0 THEN Throw("TypeError")
    ELSE LET actual == match(countExplain[1].queryPlan, regexpActual)
         IN  IF Len(actual) = 0 THEN Throw("TypeError")
             ELSE LET count == match(actual[1], regexpRows)
                  IN  IF Len(count) = 0 THEN Throw("TypeError")
                      ELSE Ok(parseInt(replaceAll(count[1], "rows=", "")))

(***************************************************************************)
(* createSqlQueryForBuilder({ mainQuery, where }).                         *)
(***************************************************************************)
createSqlQueryForBuilder(mainQuery, where) ==
    LET conditionsQuery == createWhereQuery(where, FALSE)
    IN  [preparedQuery |-> mainQuery \o conditionsQuery.where,
         bindings |-> conditionsQuery.bindings]

(***************************************************************************)
(* postgreSqlBuilder({ modelSQLField, fieldsData, relatedFieldsData }).    *)
(* A model is [tableName, fields], fields being its <<name, spec>> entries *)
(* in declaration order.  A JavaScript Set is the sequence of its members  *)
(* in insertion order.  The Sets `select` and `join` receive the schema's  *)
(* arrays themselves, which a Set tells apart by reference: such a member  *)
(* is [ref, items], ref naming the field that owns the array; a string     *)
(* member is [str].                                                        *)
(***************************************************************************)
\* modelSQLField?.[field]; undefined reads like the empty object through ?.
fieldLookup(modelSQLField, field) ==
    LET at == {i \in 1..Len(modelSQLField.fields) : modelSQLField.fields[i][1] = field}
    IN  IF at = {} THEN nullObject ELSE modelSQLField.fields[Min(at)][2]

\* Set.prototype.add
add(set, member) ==
    IF \E i \in 1..Len(set) : set[i] = member THEN set ELSE Append(set, member)

RECURSIVE addAll(_, _)
addAll(set, members) ==
    IF Len(members) = 0 THEN set ELSE addAll(add(set, members[1]), Tail(members))

\* String(member), as Array.prototype.join applies it to a member of a Set
memberToString(member) ==
    IF has(member, "str") THEN member.str ELSE join(member.items, ",")

RECURSIVE membersToStrings(_)
membersToStrings(set) ==
    IF Len(set) = 0 THEN <<>> ELSE <<memberToString(set[1])>> \o membersToStrings(Tail(set))

\* JSON.stringify({ [key]: value }) and JSON.parse of it, for integer values
JSONstringify(key, value) == "{\"" \o key \o "\":" \o ToString(value) \o "}"

JSONparse(item) ==
    LET colon == Min(Occurrences(item, "\":"))
    IN  SubSeq(item, 3, colon - 1) :> parseInt(SubSeq(item, colon + 2, Len(item) - 1))

\* Object.entries(binding), each entry serialized; the keys of one object are
\* distinct, so the order among them does not reach the merged bindings
RECURSIVE bindingEntries(_)
bindingEntries(binding) ==
    IF DOMAIN binding = {} THEN <<>>
    ELSE LET key == CHOOSE k \in DOMAIN binding : TRUE
         IN  <<JSONstringify(key, binding[key])>>
                 \o bindingEntries([k \in DOMAIN binding \ {key} |-> binding[k]])

RECURSIVE parsedBindings(_)
parsedBindings(whereBindings) ==
    IF Len(whereBindings) = 0 THEN nullObject
    ELSE spread(JSONparse(whereBindings[1]), parsedBindings(Tail(whereBindings)))

RECURSIVE queryFragments(_)
queryFragments(whereQuery) ==
    IF Len(whereQuery) = 0 THEN <<>>
    ELSE <<[query |-> whereQuery[1]]>> \o queryFragments(Tail(whereQuery))

emptySets == [select |-> <<>>, join |-> <<>>, whereQuery |-> <<>>, whereBindings |-> <<>>]

\* lines 500-510: the field handled as a column
columnField(sets, field, modelField) ==
    [select |-> IF has(modelField, "select") /\ Len(modelField.select) > 0
                THEN add(sets.select, [ref |-> field, items |-> modelField.select])
                ELSE sets.select,
     join |-> IF has(modelField, "join") /\ Len(modelField.join) > 0
              THEN add(sets.join, [ref |-> field, items |-> modelField.join])
              ELSE sets.join,
     whereQuery |-> IF has(modelField, "where") /\ has(modelField.where, "query")
                       /\ modelField.where.query # ""
                    THEN add(sets.whereQuery, modelField.where.query)
                    ELSE sets.whereQuery,
     whereBindings |-> IF has(modelField, "where") /\ has(modelField.where, "binding")
                       THEN addAll(sets.whereBindings, bindingEntries(modelField.where.binding))
                       ELSE sets.whereBindings]

\* the wrappers of the two relation types exchanged
wrapSubQuery_TypesSwapped(subQuery, field, type) ==
    LET alias == field \o "_alias"
    IN  IF type = "{}"
        THEN "(SELECT jsonb_agg(" \o alias \o ") FROM (" \o subQuery \o ") AS " \o alias
                 \o ") AS " \o field
        ELSE IF type = "[]"
        THEN "(SELECT to_jsonb(" \o alias \o ") FROM (" \o subQuery \o ") AS " \o alias
                 \o ") AS " \o field
        ELSE subQuery

\* lines 475-485: the wrapper of the sub-query by the relation's type
wrapSubQuery(subQuery, field, type) ==
    LET alias == field \o "_alias"
    IN  IF type = "[]"
        THEN "(SELECT jsonb_agg(" \o alias \o ") FROM (" \o subQuery \o ") AS " \o alias
                 \o ") AS " \o field
        ELSE IF type = "{}"
        THEN "(SELECT to_jsonb(" \o alias \o ") FROM (" \o subQuery \o ") AS " \o alias
                 \o ") AS " \o field
        ELSE subQuery

\* the select list joined by bare commas and no blank after the table name
builderData_CommaOnly(modelSQLField, sets) ==
    LET queries == queryFragments(sets.whereQuery)
        bindings == parsedBindings(sets.whereBindings)
        select == join(membersToStrings(sets.select), ",")
        joins == join(membersToStrings(sets.join), "\n")
        where == IF DOMAIN bindings # {} THEN Append(queries, [binding |-> bindings])
                 ELSE queries
    IN  [mainQuery |-> "SELECT " \o select \o " FROM " \o modelSQLField.tableName
                           \o (IF joins = "" THEN "" ELSE " " \o joins),
         where |-> where]

\* lines 514-530: the Sets turned into { mainQuery, where }
builderData(modelSQLField, sets) ==
    LET queries == queryFragments(sets.whereQuery)
        bindings == parsedBindings(sets.whereBindings)
        select == join(membersToStrings(sets.select), ",\n")
        joins == join(membersToStrings(sets.join), "\n")
        where == IF DOMAIN bindings # {} THEN Append(queries, [binding |-> bindings])
                 ELSE queries
    IN  [mainQuery |-> "SELECT " \o select \o " FROM " \o modelSQLField.tableName
                           \o " " \o joins,
         where |-> where]

RECURSIVE postgreSqlBuilder(_, _, _)
RECURSIVE builderFields(_, _, _, _)

\* lines 448-511: the loop over the requested fields
builderFields(modelSQLField, fields, relatedFields, sets) ==
    IF Len(fields) = 0 THEN Ok(sets)
    ELSE LET field == fields[1]
             modelField == fieldLookup(modelSQLField, field)
         IN  IF has(relatedFields, field) /\ Len(relatedFields[field]) > 0
                /\ has(modelField, "relation")
             THEN LET relatedBuilderData ==
                          postgreSqlBuilder(modelField.relation, relatedFields[field], nullObject)
                  IN  IF ~relatedBuilderData.ok THEN relatedBuilderData
                      ELSE IF ~has(modelField, "where") \/ ~has(modelField, "type")
                      THEN Throw("TypeError")
                      ELSE LET subQueryData ==
                                   createSqlQueryForBuilder(
                                       relatedBuilderData.value.mainQuery,
                                       Append(relatedBuilderData.value.where, modelField.where))
                               subQuery == wrapSubQuery(subQueryData.preparedQuery, field,
                                                        modelField.type)
                           IN  builderFields(modelSQLField, Tail(fields), relatedFields,
                                   [sets EXCEPT
                                       !.select = add(@, [str |-> subQuery]),
                                       !.whereBindings =
                                           addAll(@, bindingEntries(subQueryData.bindings))])
             ELSE builderFields(modelSQLField, Tail(fields), relatedFields,
                                columnField(sets, field, modelField))

postgreSqlBuilder(modelSQLField, fieldsData, relatedFieldsData) ==
    IF modelSQLField = nullObject THEN Throw("Invalid input: modelSQLField is required")
    ELSE IF Len(fieldsData) = 0
    THEN Throw("Invalid input: fields or info are required (fields must be an array, info - object)")
    ELSE LET sets == builderFields(modelSQLField, fieldsData, relatedFieldsData, emptySets)
         IN  IF ~sets.ok THEN sets ELSE Ok(builderData(modelSQLField, sets.value))

(***************************************************************************)
(* The state before any call, and the hand-over of an outcome to the       *)
(* caller, after which the next call starts from fresh locals.             *)
(***************************************************************************)
NoReply == [kind |-> "none"]

Init ==
    /\ pc = "idle"
    /\ call = [op |-> "none"]
    /\ locals = [preparedQuery |-> "", bindings |-> nullObject]
    /\ dbLog = <<>>
    /\ dbReply = NoReply
    /\ ret = Throw("none")
    /\ heap = nullObject
    /\ calls = <<>>

Settle ==
    /\ pc \in {"returned", "threw"}
    /\ pc' = "idle"
    /\ call' = [op |-> "none"]
    /\ locals' = [preparedQuery |-> "", bindings |-> nullObject]
    /\ dbLog' = <<>>
    /\ dbReply' = NoReply
    /\ ret' = Throw("none")
    /\ UNCHANGED <<heap, calls>>

\* sequences over S of length at most n
SeqsUpTo(S, n) == UNION {[1..k -> S] : k \in 0..n}

(***************************************************************************)
(* removeSpecialSymbols called on every string over a whitespace           *)
(* character, two characters of the removed class and an ordinary one.     *)
(***************************************************************************)
Alphabet == {" ", "#", ";", "a"}

RECURSIVE StringsUpTo(_)
StringsUpTo(n) ==
    IF n = 0 THEN {""}
    ELSE LET T == StringsUpTo(n - 1)
         IN  T \cup {t \o c : t \in {u \in T : Len(u) = n - 1}, c \in Alphabet}

SearchStrings == StringsUpTo(MaxLen)

CallRemoveSpecialSymbols ==
    /\ pc = "idle"
    /\ \E search \in SearchStrings :
           Finish("removeSpecialSymbols", [search |-> search], Ok(removeSpecialSymbols(search)))
    /\ UNCHANGED <<locals, dbLog, dbReply, heap, calls>>

NextSanitizer == CallRemoveSpecialSymbols \/ Settle

SpecSanitizer == Init /\ [][NextSanitizer]_vars

(***************************************************************************)
(* createWhereQuery called on condition lists: a condition with query and  *)
(* binding, one that only carries a binding, one that only carries a       *)
(* query, and one whose query is null.                                     *)
(***************************************************************************)
Conditions ==
    {[query |-> "data.articles.user_id = :userId", binding |-> [userId |-> 5]],
     [binding |-> [authorName |-> 1]],
     [query |-> "a.id = u.address_id"],
     [query |-> null, binding |-> [userId |-> 7]]}

CallCreateWhereQuery ==
    /\ pc = "idle"
    /\ \E whereConditions \in SeqsUpTo(Conditions, MaxWhere), doNotAddWhere \in BOOLEAN :
           Finish("createWhereQuery",
                  [whereConditions |-> whereConditions, doNotAddWhere |-> doNotAddWhere],
                  Ok(createWhereQuery(whereConditions, doNotAddWhere)))
    /\ UNCHANGED <<locals, dbLog, dbReply, heap, calls>>

NextWhere == CallCreateWhereQuery \/ Settle

SpecWhere == Init /\ [][NextWhere]_vars

(***************************************************************************)
(* createMetaQuery called on every combination of the meta properties,    *)
(* the sorting table and the raw order.                                    *)
(***************************************************************************)
OrderOptions == {nullObject, [order |-> "asc"], [order |-> "Desc"], [order |-> "DESC"],
                 [order |-> "sideways"], [order |-> ""]}
OrderByOptions == {nullObject, [orderBy |-> "title"], [orderBy |-> " created_at;"]}
PerPageOptions == {nullObject, [perPage |-> 0], [perPage |-> 10]}
OffsetOptions == {nullObject, [offset |-> 0], [offset |-> 50]}

Metas == {a @@ b @@ c @@ d : a \in OrderOptions, b \in OrderByOptions,
                             c \in PerPageOptions, d \in OffsetOptions}

Tables == {null, "data.articles"}
OrderRaws == {null, "ORDER BY t.year DESC, t.month DESC"}

CallCreateMetaQuery ==
    /\ pc = "idle"
    /\ \E meta \in Metas, table \in Tables, orderRaw \in OrderRaws :
           Finish("createMetaQuery", [meta |-> meta, table |-> table, orderRaw |-> orderRaw],
                  createMetaQuery(meta, table, orderRaw))
    /\ UNCHANGED <<locals, dbLog, dbReply, heap, calls>>

NextMeta == CallCreateMetaQuery \/ Settle

SpecMeta == Init /\ [][NextMeta]_vars

(***************************************************************************)
(* postgreSqlBuilder called on the models of the documentation: a model    *)
(* of plain columns, the user model (columns with joins and conditions)    *)
(* and the feedback model (relations to the user model).                   *)
(***************************************************************************)
tagSQLFields ==
    [tableName |-> "data.tags t",
     fields |-> <<<<"id", [select |-> <<"t.id">>]>>,
                  <<"name", [select |-> <<"t.name">>]>>,
                  <<"slug", [select |-> <<"t.slug">>]>> >>]

userSQLFields ==
    [tableName |-> "data.users u",
     fields |-> <<<<"id", [select |-> <<"DISTINCT u.id">>]>>,
                  <<"firstName", [select |-> <<"u.first_name">>]>>,
                  <<"address", [select |-> <<"to_jsonb(a) as address">>,
                                join |-> <<"INNER JOIN data.addresses a ON a.id = u.address_id">>,
                                where |-> [query |-> "a.id = u.address_id",
                                           binding |-> nullObject]]>>,
                  <<"currency", [select |-> <<"COALESCE(uset.currency, :defaultPlatformCurrency) as currency">>,
                                 join |-> <<"INNER JOIN data.user_settings uset ON uset.user_id = u.id">>,
                                 where |-> [binding |-> [defaultPlatformCurrency |-> 1]]]>>,
                  <<"locale", [select |-> <<"COALESCE(uset.locale, :defaultLanguage) as locale">>,
                               join |-> <<"INNER JOIN data.user_settings uset ON uset.user_id = u.id">>,
                               where |-> [binding |-> [defaultLanguage |-> 2]]]>> >>]

feedbackSQLFields ==
    [tableName |-> "data.feedbacks f",
     fields |-> <<<<"id", [select |-> <<"f.id">>]>>,
                  <<"score", [select |-> <<"f.score">>]>>,
                  <<"author", [relation |-> userSQLFields, type |-> "{}",
                               where |-> [query |-> "u.id = f.author_id"]]>>,
                  <<"voters", [relation |-> userSQLFields, type |-> "[]",
                               where |-> [query |-> "u.id = ANY (f.voters)"]]>> >>]

Models == {tagSQLFields, userSQLFields, feedbackSQLFields}

\* the declared field names of a model
RECURSIVE entryKeys(_)
entryKeys(entries) ==
    IF Len(entries) = 0 THEN <<>> ELSE <<entries[1][1]>> \o entryKeys(Tail(entries))

fieldNames(modelSQLField) == {modelSQLField.fields[i][1] : i \in 1..Len(modelSQLField.fields)}

RelatedFieldsData ==
    {nullObject,
     [author |-> <<"id", "firstName">>],
     [author |-> <<"currency">>, voters |-> <<"id", "address">>]}

CallPostgreSqlBuilder ==
    /\ pc = "idle"
    /\ \E modelSQLField \in Models \cup {nullObject} :
       \E fieldsData \in SeqsUpTo(IF modelSQLField = nullObject THEN {"id"}
                                  ELSE fieldNames(modelSQLField) \cup {"unknown"}, MaxFields),
          relatedFieldsData \in RelatedFieldsData :
           Finish("postgreSqlBuilder",
                  [modelSQLField |-> modelSQLField, fieldsData |-> fieldsData,
                   relatedFieldsData |-> relatedFieldsData],
                  postgreSqlBuilder(modelSQLField, fieldsData, relatedFieldsData))
    /\ UNCHANGED <<locals, dbLog, dbReply, heap, calls>>

NextBuilder == CallPostgreSqlBuilder \/ Settle

SpecBuilder == Init /\ [][NextBuilder]_vars

(***************************************************************************)
(* prepareSQLQuery.  The call runs synchronously up to the await of        *)
(* DB.query inside getCountRecords; the driver then resolves with the rows *)
(* of the plan or rejects, and the function runs to its end.               *)
(***************************************************************************)
FILTER_WITH_TABLES ==
    [month |-> [table |-> "data.articles", field |-> "created_at",
                query |-> "EXTRACT(MONTH FROM data.articles.created_at) = :value"],
     isPublished |-> [table |-> "data.articles", field |-> "is_published", query |-> null]]

FilterKeys == {"isPublished", "month", "author", "constructor"}
FilterValues == {7}

\* the entries of a filters object: distinct keys, at most MaxFilters of them
FilterMaps ==
    {f \in SeqsUpTo(FilterKeys \X FilterValues, MaxFilters) :
        \A i, j \in 1..Len(f) : f[i][1] = f[j][1] => i = j}

\* a rule table whose query template names the value twice
FILTER_WITH_PERIOD ==
    FILTER_WITH_TABLES @@
    ("period" :> [table |-> "data.articles", field |-> "year",
                  query |-> "data.articles.year BETWEEN :value AND :value + 1"])

HelperFilterKeys == FilterKeys \cup {"period"}
HelperFilterValues == {1, 7}

HelperFilterMaps ==
    {f \in SeqsUpTo(HelperFilterKeys \X HelperFilterValues, MaxFilters) :
        \A i, j \in 1..Len(f) : f[i][1] = f[j][1] => i = j}

\* lines 51-70: one call of filtersHelper({ filters, rules })
CallFiltersHelper ==
    /\ pc = "idle"
    /\ \E filters \in HelperFilterMaps,
          rules \in {nullObject, FILTER_WITH_TABLES, FILTER_WITH_PERIOD} :
           Finish("filtersHelper", [filters |-> filters, rules |-> rules],
                  filtersHelper(filters, rules))
    /\ UNCHANGED <<locals, dbLog, dbReply, heap, calls>>

NextFilters == CallFiltersHelper \/ Settle
SpecFilters == Init /\ [][NextFilters]_vars

BaseConditions ==
    {[query |-> "data.articles.user_id = :userId", binding |-> [userId |-> 5]],
     [binding |-> [authorName |-> 1]],
     [query |-> "data.articles.position > :offset", binding |-> [offset |-> 5]]}

PrepareMetas == {nullObject, [order |-> "desc", orderBy |-> "title"], [order |-> "sideways"],
                 [perPage |-> 10, offset |-> 50]}

\* the documented count options (README, "Function params")
CountOptions ==
    {[getTotalCount |-> TRUE, rawTotalCountQuery |-> nullObject],
     [getTotalCount |-> FALSE, rawTotalCountQuery |-> nullObject],
     [getTotalCount |-> TRUE,
      rawTotalCountQuery |-> [query |-> "SELECT COUNT(a.id) FROM data.articles a;"]]}

PrepareArgs ==
    {[mainQuery |-> "SELECT * FROM data.articles", where |-> where,
      doNotAddWhere |-> doNotAddWhere, groupBy |-> groupBy, meta |-> meta,
      orderRaw |-> orderRaw, sortingTableName |-> sortingTableName,
      filters |-> filters, filterRules |-> filterRules] @@ countOptions :
        where \in SeqsUpTo(BaseConditions, MaxBase), doNotAddWhere \in BOOLEAN,
        groupBy \in {null, "GROUP BY data.articles.year"}, meta \in PrepareMetas,
        orderRaw \in OrderRaws, sortingTableName \in Tables,
        filters \in FilterMaps, filterRules \in {nullObject, FILTER_WITH_TABLES},
        countOptions \in CountOptions}

\* the compiled filters placed before the base conditions
whereConditionsOf_FiltersFirst(where, filterWhere) == filterWhere \o where

\* the ordering and pagination appended before the records are counted
preparedQueryOf_WithPagination(mainQuery, conditionsQuery, groupBy) ==
    LET withWhere == mainQuery \o conditionsQuery.where
    IN  (IF groupBy # "" THEN withWhere \o " " \o groupBy ELSE withWhere)
            \o " OFFSET :offset LIMIT :perPage"

\* lines 214-218: the base conditions followed by the compiled filters
whereConditionsOf(where, filterWhere) == where \o filterWhere

\* lines 212, 224, 227: the query as it stands when the records are counted
preparedQueryOf(mainQuery, conditionsQuery, groupBy) ==
    LET withWhere == mainQuery \o conditionsQuery.where
    IN  IF groupBy # "" THEN withWhere \o " " \o groupBy ELSE withWhere

\* lines 208-233: everything up to the DB.query call of getCountRecords
prepareSQLQuery ==
    /\ pc = "idle"
    /\ \E args \in PrepareArgs :
        LET filterWhere == IF Len(args.filters) > 0
                           THEN filtersHelper(args.filters, args.filterRules)
                           ELSE Ok(<<>>)
        IN  IF ~filterWhere.ok
            THEN /\ Finish("prepareSQLQuery", args, filterWhere)
                 /\ UNCHANGED <<locals, dbLog>>
            ELSE LET whereConditions == whereConditionsOf(args.where, filterWhere.value)
                     conditionsQuery == createWhereQuery(whereConditions, args.doNotAddWhere)
                     query == preparedQueryOf(args.mainQuery, conditionsQuery, args.groupBy)
                 IN  /\ call' = [op |-> "prepareSQLQuery", args |-> args]
                     /\ locals' = [preparedQuery |-> query,
                                   bindings |-> conditionsQuery.bindings]
                     /\ dbLog' = Append(dbLog, [sql |-> countQuery(query),
                                                bindings |-> conditionsQuery.bindings])
                     /\ pc' = "awaitDB"
                     /\ UNCHANGED ret
    /\ UNCHANGED <<dbReply, heap, calls>>

Counts == {0, 12, 305}

\* the plan of a sort over a scan whose outermost node produced n rows
Plan(n) ==
    <<[queryPlan |-> "Sort  (cost=1.05..1.06 rows=3 width=8) (actual rows="
                         \o ToString(n) \o " loops=1)"],
      [queryPlan |-> "  ->  Seq Scan on articles  (cost=0.00..1.03 rows=3 width=8)"
                         \o " (actual rows=9 loops=1)"]>>

\* a plan without run-time annotations, and an empty result
PlanNotAnalyzed == <<[queryPlan |-> "Result  (cost=0.00..0.01 rows=1 width=4)"]>>

DBRows == {Plan(n) : n \in Counts} \cup {PlanNotAnalyzed, <<>>}

\* lines 165-170 and 235-242: the await resumes with the driver's rows
DBResolve ==
    /\ pc = "awaitDB"
    /\ \E countExplain \in DBRows :
        LET totalCount == getCountRecords(countExplain)
            sortingQuery == createMetaQuery(call.args.meta, call.args.sortingTableName,
                                            call.args.orderRaw)
        IN  /\ dbReply' = [kind |-> "rows", rows |-> countExplain]
            /\ ret' = IF ~totalCount.ok THEN totalCount
                      ELSE IF ~sortingQuery.ok THEN sortingQuery
                      ELSE Ok([preparedQuery |-> locals.preparedQuery \o sortingQuery.value.sorting,
                               bindings |-> spread(locals.bindings, sortingQuery.value.bindings),
                               totalCount |-> totalCount.value])
            /\ pc' = IF ret'.ok THEN "returned" ELSE "threw"
    /\ UNCHANGED <<call, locals, dbLog, heap, calls>>

\* the driver rejects the query: the await throws
DBReject ==
    /\ pc = "awaitDB"
    /\ dbReply' = [kind |-> "rejected"]
    /\ ret' = Throw("DBError")
    /\ pc' = "threw"
    /\ UNCHANGED <<call, locals, dbLog, heap, calls>>

Next == prepareSQLQuery \/ DBResolve \/ DBReject \/ Settle

Spec == Init /\ [][Next]_vars

\* createMetaQuery on its own and inside prepareSQLQuery
NextPagination == CallCreateMetaQuery \/ prepareSQLQuery \/ DBResolve \/ DBReject \/ Settle

SpecPagination == Init /\ [][NextPagination]_vars

(***************************************************************************)
(* Callers that share objects.  Arrays and objects are passed by           *)
(* reference: `heap` holds the objects the callers keep, by name, and an   *)
(* invocation receives names.  While it runs, the objects it allocates     *)
(* join the store under the name of the local that holds them; they are    *)
(* dropped when the synchronous segment ends.  A segment runs to its end   *)
(* without interruption (one thread), so invocations interleave only at    *)
(* the await of prepareSQLQuery.                                           *)
(***************************************************************************)
Heap0 ==
    [feedbackSQLFields |-> feedbackSQLFields,
     userSQLFields |-> userSQLFields,
     FILTER_WITH_TABLES |-> FILTER_WITH_TABLES,
     where |-> <<[query |-> "data.articles.user_id = :userId", binding |-> [userId |-> 5]]>>,
     emptyWhere |-> <<>>,
     filters |-> <<<<"month", 7>>>>,
     meta |-> [order |-> "desc", orderBy |-> "title"]]

\* the object a name stands for; a null argument reads like an empty object
deref(st, ref) == IF ref = null THEN nullObject ELSE st[ref]

\* a literal or a spread: a new object, bound to the local `id`
alloc(st, id, value) == (id :> value) @@ st

\* Array.prototype.push through the reference `id`
pushInto(st, id, items) == [st EXCEPT ![id] = @ \o items]

\* the end of a segment: the locals go, the callers' objects stay
restrict(st, ids) == [id \in ids |-> st[id]]

\* lines 52, 62: filtersHelper pushes onto the array it allocated
filtersHelperStore(st, filterWhere) ==
    pushInto(alloc(st, "filtersHelper.where", <<>>), "filtersHelper.where", filterWhere)

\* lines 81, 86: createWhereQuery pushes onto the array it allocated
createWhereQueryStore(st, whereConditions) ==
    pushInto(alloc(st, "createWhereQuery.conditions", <<>>), "createWhereQuery.conditions",
             whereConditionsQueries(whereConditions))

\* the compiled filters pushed onto the array whereConditions refers to
addFilters_Push(st, whereConditions, filterWhere) ==
    [st |-> pushInto(st, whereConditions, filterWhere), ref |-> whereConditions]

\* line 217: whereConditions = [...whereConditions, ...filterWhere] binds the
\* local, which line 209 made an alias of the caller's `where`, to a new array
addFilters(st, whereConditions, filterWhere) ==
    [st |-> alloc(st, "prepareSQLQuery.whereConditions",
                  whereConditionsOf(st[whereConditions], filterWhere)),
     ref |-> "prepareSQLQuery.whereConditions"]

\* lines 208-233 over the store: the segment of prepareSQLQuery before its await
prepareSync(st, a) ==
    LET filters == deref(st, a.filters)
        filterWhere == IF Len(filters) > 0
                       THEN filtersHelper(filters, deref(st, a.filterRules))
                       ELSE Ok(<<>>)
    IN  IF ~filterWhere.ok THEN [ok |-> FALSE, error |-> filterWhere.error, st |-> st]
        ELSE LET st1 == IF Len(filters) > 0
                        THEN filtersHelperStore(st, filterWhere.value) ELSE st
                 added == IF Len(filters) > 0
                          THEN addFilters(st1, a.where, filterWhere.value)
                          ELSE [st |-> st1, ref |-> a.where]
                 whereConditions == added.st[added.ref]
                 conditionsQuery == createWhereQuery(whereConditions, a.doNotAddWhere)
             IN  [ok |-> TRUE,
                  st |-> createWhereQueryStore(added.st, whereConditions),
                  preparedQuery |-> preparedQueryOf(a.mainQuery, conditionsQuery, a.groupBy),
                  bindings |-> conditionsQuery.bindings]

\* lines 235-242: the segment of prepareSQLQuery after its await; it reads
\* meta and writes through no reference
prepareResume(st, a, locals0, countExplain) ==
    LET totalCount == getCountRecords(countExplain)
        sortingQuery == createMetaQuery(deref(st, a.meta), a.sortingTableName, a.orderRaw)
    IN  IF ~totalCount.ok THEN totalCount
        ELSE IF ~sortingQuery.ok THEN sortingQuery
        ELSE Ok([preparedQuery |-> locals0.preparedQuery \o sortingQuery.value.sorting,
                 bindings |-> spread(locals0.bindings, sortingQuery.value.bindings),
                 totalCount |-> totalCount.value])

\* lines 448-511 over the store: the only push of the loop that is not on a
\* Set of lines 442-445 is line 469, on the `where` array of the nested
\* call's result, which line 524 of that call allocated; the pushed element
\* is the relation's own where object
RECURSIVE builderStore(_, _, _, _)
builderStore(st, modelSQLField, fields, relatedFields) ==
    IF Len(fields) = 0 THEN st
    ELSE LET field == fields[1]
             modelField == fieldLookup(st[modelSQLField], field)
         IN  IF has(relatedFields, field) /\ Len(relatedFields[field]) > 0
                /\ has(modelField, "relation")
             THEN LET relatedBuilderData ==
                          postgreSqlBuilder(modelField.relation, relatedFields[field], nullObject)
                  IN  IF ~relatedBuilderData.ok \/ ~has(modelField, "where") THEN st
                      ELSE builderStore(
                               pushInto(alloc(st, "relatedBuilderData.where",
                                              relatedBuilderData.value.where),
                                        "relatedBuilderData.where", <<modelField.where>>),
                               modelSQLField, Tail(fields), relatedFields)
             ELSE builderStore(st, modelSQLField, Tail(fields), relatedFields)

Callers == 1..MaxCalls

IdleCall ==
    [op |-> "none", args |-> nullObject, pc |-> "idle",
     locals |-> [preparedQuery |-> "", bindings |-> nullObject], sql |-> "",
     ret |-> Throw("none")]

InitShared ==
    /\ pc = "idle"
    /\ call = [op |-> "none"]
    /\ locals = [preparedQuery |-> "", bindings |-> nullObject]
    /\ dbLog = <<>>
    /\ dbReply = NoReply
    /\ ret = Throw("none")
    /\ heap = Heap0
    /\ calls = [c \in Callers |-> IdleCall]

SharedPrepareArgs ==
    {[mainQuery |-> "SELECT * FROM data.articles", where |-> where, doNotAddWhere |-> FALSE,
      groupBy |-> null, meta |-> "meta", orderRaw |-> null,
      sortingTableName |-> "data.articles", filters |-> filters,
      filterRules |-> "FILTER_WITH_TABLES"] :
        where \in {"where", "emptyWhere"}, filters \in {null, "filters"}}

SharedBuilderArgs ==
    {[modelSQLField |-> "feedbackSQLFields", fieldsData |-> <<"id", "author">>,
      relatedFieldsData |-> [author |-> <<"id", "firstName">>]],
     [modelSQLField |-> "userSQLFields", fieldsData |-> <<"id", "address">>,
      relatedFieldsData |-> nullObject]}

SharedSqlArgs ==
    {[mainQuery |-> "SELECT * FROM data.articles", where |-> where] :
        where \in {"where", "emptyWhere"}}

SharedRows == {Plan(12), <<>>}

\* caller c invokes prepareSQLQuery, which runs up to its await
SharedPrepare(c) ==
    /\ calls[c].pc = "idle"
    /\ \E a \in SharedPrepareArgs :
        LET sync == prepareSync(heap, a)
        IN  /\ heap' = restrict(sync.st, DOMAIN heap)
            /\ calls' = [calls EXCEPT ![c] =
                   IF ~sync.ok
                   THEN [IdleCall EXCEPT !.op = "prepareSQLQuery", !.args = a, !.pc = "threw",
                                         !.ret = Throw(sync.error)]
                   ELSE [IdleCall EXCEPT !.op = "prepareSQLQuery", !.args = a,
                                         !.pc = "awaitDB",
                                         !.locals = [preparedQuery |-> sync.preparedQuery,
                                                     bindings |-> sync.bindings],
                                         !.sql = countQuery(sync.preparedQuery)]]
    /\ UNCHANGED <<pc, call, locals, dbLog, dbReply, ret>>

\* the driver answers caller c's query and prepareSQLQuery runs to its end
SharedResolve(c) ==
    /\ calls[c].pc = "awaitDB"
    /\ \E countExplain \in SharedRows :
        LET r == prepareResume(heap, calls[c].args, calls[c].locals, countExplain)
        IN  calls' = [calls EXCEPT ![c].ret = r,
                                   ![c].pc = IF r.ok THEN "returned" ELSE "threw"]
    /\ UNCHANGED <<pc, call, locals, dbLog, dbReply, ret, heap>>

\* the driver rejects caller c's query
SharedReject(c) ==
    /\ calls[c].pc = "awaitDB"
    /\ calls' = [calls EXCEPT ![c].ret = Throw("DBError"), ![c].pc = "threw"]
    /\ UNCHANGED <<pc, call, locals, dbLog, dbReply, ret, heap>>

\* caller c invokes postgreSqlBuilder, which runs to its end
SharedBuilder(c) ==
    /\ calls[c].pc = "idle"
    /\ \E a \in SharedBuilderArgs :
        LET r == postgreSqlBuilder(heap[a.modelSQLField], a.fieldsData, a.relatedFieldsData)
            st == builderStore(heap, a.modelSQLField, a.fieldsData, a.relatedFieldsData)
        IN  /\ heap' = restrict(st, DOMAIN heap)
            /\ calls' = [calls EXCEPT ![c] =
                   [IdleCall EXCEPT !.op = "postgreSqlBuilder", !.args = a, !.ret = r,
                                    !.pc = IF r.ok THEN "returned" ELSE "threw"]]
    /\ UNCHANGED <<pc, call, locals, dbLog, dbReply, ret>>

\* caller c invokes createSqlQueryForBuilder, which runs to its end
SharedSqlForBuilder(c) ==
    /\ calls[c].pc = "idle"
    /\ \E a \in SharedSqlArgs :
        LET r == createSqlQueryForBuilder(a.mainQuery, heap[a.where])
            st == createWhereQueryStore(heap, heap[a.where])
        IN  /\ heap' = restrict(st, DOMAIN heap)
            /\ calls' = [calls EXCEPT ![c] =
                   [IdleCall EXCEPT !.op = "createSqlQueryForBuilder", !.args = a,
                                    !.ret = Ok(r), !.pc = "returned"]]
    /\ UNCHANGED <<pc, call, locals, dbLog, dbReply, ret>>

\* caller c takes the outcome
SharedSettle(c) ==
    /\ calls[c].pc \in {"returned", "threw"}
    /\ calls' = [calls EXCEPT ![c] = IdleCall]
    /\ UNCHANGED <<pc, call, locals, dbLog, dbReply, ret, heap>>

NextShared ==
    \E c \in Callers :
        \/ SharedPrepare(c)
        \/ SharedResolve(c)
        \/ SharedReject(c)
        \/ SharedBuilder(c)
        \/ SharedSqlForBuilder(c)
        \/ SharedSettle(c)

SpecShared == InitShared /\ [][NextShared]_vars

(***************************************************************************)
(* Properties.                                                             *)
(***************************************************************************)
pagination == " OFFSET :offset LIMIT :perPage"

\* what filtersHelper hands to prepareSQLQuery for the arguments a
filterWhereOf(a) ==
    IF Len(a.filters) > 0 THEN filtersHelper(a.filters, a.filterRules).value ELSE <<>>

groupByOf(a) == IF a.groupBy # "" THEN " " \o a.groupBy ELSE ""

C2_UnknownFilterKeyFails ==
    (/\ call.op = "prepareSQLQuery"
     /\ pc # "idle"
     /\ \E i \in 1..Len(call.args.filters) :
            call.args.filters[i][1] \notin DOMAIN call.args.filterRules)
        => (pc = "threw" /\ dbLog = <<>>)

\* C3: a reply whose first row has no "actual rows=N" annotation makes
\* prepareSQLQuery throw (no result, no count of zero); with an annotation
\* a returned totalCount is its N.
C3_CountFromActualRows ==
    (call.op = "prepareSQLQuery" /\ dbReply.kind = "rows") =>
        /\ dbReply.rows \notin {Plan(n) : n \in Counts} => (pc = "threw" /\ ~ret.ok)
        /\ \A n \in Counts :
               (dbReply.rows = Plan(n) /\ pc = "returned") => ret.value.totalCount = n

C3_Witness ==
    /\ call.op = "prepareSQLQuery"
    /\ pc = "threw"
    /\ dbReply.kind = "rows"
    /\ dbReply.rows = PlanNotAnalyzed
    /\ ret.error = "TypeError"

\* meta.order is supplied (a non-empty string) and is neither ASC nor DESC
invalidOrder(meta) ==
    has(meta, "order") /\ meta.order # "" /\ toUpperCase(meta.order) \notin {"ASC", "DESC"}

\* C4 as stated: createMetaQuery throws whenever meta.order is supplied and
\* its upper case is neither ASC nor DESC, whatever the table, meta.orderBy
\* and orderRaw.
C4_Original ==
    (call.op = "createMetaQuery" /\ pc \in {"returned", "threw"}
         /\ invalidOrder(call.args.meta))
        => pc = "threw"

\* C4 amended: createMetaQuery throws exactly when orderRaw is not supplied
\* and meta.order is a non-empty string whose upper case is neither ASC nor
\* DESC, whatever the table and meta.orderBy; asc/desc in any case pass.
C4_OrderValidatedUnlessRaw ==
    (call.op = "createMetaQuery" /\ pc \in {"returned", "threw"}) =>
        LET a == call.args
        IN  pc = "threw" <=> (a.orderRaw = "" /\ invalidOrder(a.meta))

C4_Witness ==
    /\ call.op = "createMetaQuery"
    /\ pc = "threw"
    /\ call.args.meta.order = "sideways"
    /\ has(call.args.meta, "orderBy")
    /\ call.args.table # ""

\* C5: with getTotalCount false no count query reaches the driver, and with
\* a rawTotalCountQuery the EXPLAIN query of getCountRecords is not issued.
C5_CountOptionsHonoured ==
    (call.op = "prepareSQLQuery" /\ pc # "idle") =>
        /\ call.args.getTotalCount = FALSE => dbLog = <<>>
        /\ call.args.rawTotalCountQuery # nullObject =>
               \A i \in 1..Len(dbLog) : ~startsWith(dbLog[i].sql, "EXPLAIN")

carriesQuery(c) == has(c, "query") /\ c.query # ""

\* C6 as stated: a non-empty condition list gives a clause that begins with
\* " WHERE " (" AND " when doNotAddWhere), the empty list the empty string.
C6_Original ==
    (call.op = "createWhereQuery" /\ pc = "returned") =>
        LET a == call.args
            nonEmpty == Len(a.whereConditions) > 0
        IN  /\ (nonEmpty /\ ~a.doNotAddWhere) => startsWith(ret.value.where, " WHERE ")
            /\ (nonEmpty /\ a.doNotAddWhere) => startsWith(ret.value.where, " AND ")
            /\ ~nonEmpty => ret.value.where = ""

\* C6 amended: a list in which some condition carries a query gives a clause
\* that begins with " WHERE " (" AND " when doNotAddWhere); a list in which
\* none does, the empty list included, gives the empty string in both modes.
C6_ClausePrefix ==
    (call.op = "createWhereQuery" /\ pc = "returned") =>
        LET a == call.args
            someQuery == \E i \in 1..Len(a.whereConditions) : carriesQuery(a.whereConditions[i])
        IN  /\ (someQuery /\ ~a.doNotAddWhere) => startsWith(ret.value.where, " WHERE ")
            /\ (someQuery /\ a.doNotAddWhere) => startsWith(ret.value.where, " AND ")
            /\ ~someQuery => ret.value.where = ""

C6_Witness ==
    /\ call.op = "createWhereQuery"
    /\ pc = "returned"
    /\ call.args.doNotAddWhere
    /\ Len(call.args.whereConditions) = 2
    /\ ~carriesQuery(call.args.whereConditions[1])
    /\ carriesQuery(call.args.whereConditions[2])
    /\ startsWith(ret.value.where, " AND (")

\* C7: every result of createMetaQuery and every preparedQuery returned by
\* prepareSQLQuery ends with " OFFSET :offset LIMIT :perPage", with or
\* without an ordering clause; without meta the pagination bindings are
\* offset 0 and perPage 25.
C7_AlwaysPaginated ==
    /\ (call.op = "createMetaQuery" /\ pc = "returned") =>
           /\ endsWith(ret.value.sorting, pagination)
           /\ call.args.meta = nullObject => ret.value.bindings = [offset |-> 0, perPage |-> 25]
    /\ (call.op = "prepareSQLQuery" /\ pc = "returned") =>
           /\ endsWith(ret.value.preparedQuery, pagination)
           /\ call.args.meta = nullObject =>
                  /\ {"offset", "perPage"} \subseteq DOMAIN ret.value.bindings
                  /\ ret.value.bindings.offset = 0
                  /\ ret.value.bindings.perPage = 25

C7_Witness ==
    /\ call.op = "createMetaQuery"
    /\ pc = "returned"
    /\ call.args.meta = nullObject
    /\ call.args.table = ""
    /\ call.args.orderRaw = ""
    /\ ret.value.sorting = pagination

\* C8: removeSpecialSymbols is idempotent; its result has no whitespace at
\* either end and no character of the removed class.
C8_Idempotent ==
    (call.op = "removeSpecialSymbols" /\ pc = "returned") =>
        /\ removeSpecialSymbols(ret.value) = ret.value
        /\ ret.value = "" \/ (Char(ret.value, 1) \notin WhiteSpace
                                 /\ Char(ret.value, Len(ret.value)) \notin WhiteSpace)
        /\ \A i \in 1..Len(ret.value) : ~includes(regexp, Char(ret.value, i))

\* the parenthesized queries of the base conditions and of the filters, in order
RECURSIVE C9_Conditions(_)
C9_Conditions(conditions) ==
    IF Len(conditions) = 0 THEN <<>>
    ELSE (IF carriesQuery(conditions[1]) THEN <<"(" \o conditions[1].query \o ")">> ELSE <<>>)
             \o C9_Conditions(Tail(conditions))

\* C9: the returned preparedQuery is mainQuery, then the WHERE/AND clause of
\* the base conditions followed by the filters in their order, then GROUP BY,
\* then the ordering with the pagination; with no base condition, no meta,
\* sorting table T and one filter k whose rule has no query, table T and
\* field F, it is mainQuery + " WHERE (T.F = :k) ORDER BY T.id DESC,
\* T.created_at DESC OFFSET :offset LIMIT :perPage" with bindings
\* {k: value, offset: 0, perPage: 25}.
C9_SegmentOrder ==
    (call.op = "prepareSQLQuery" /\ pc = "returned") =>
        LET a == call.args
            conditions == C9_Conditions(a.where) \o C9_Conditions(filterWhereOf(a))
            clause == IF Len(conditions) = 0 THEN ""
                      ELSE (IF a.doNotAddWhere THEN " AND " ELSE " WHERE ")
                               \o join(conditions, " AND ")
            sorting == createMetaQuery(a.meta, a.sortingTableName, a.orderRaw).value.sorting
        IN  /\ ret.value.preparedQuery = a.mainQuery \o clause \o groupByOf(a) \o sorting
            /\ \A k \in DOMAIN a.filterRules :
                 (/\ a.where = <<>> /\ a.meta = nullObject /\ ~a.doNotAddWhere
                  /\ a.groupBy = "" /\ a.orderRaw = ""
                  /\ Len(a.filters) = 1 /\ a.filters[1][1] = k
                  /\ a.filterRules[k].query = null
                  /\ a.sortingTableName = a.filterRules[k].table
                  /\ a.sortingTableName # "")
                 => LET T == a.sortingTableName
                        F == a.filterRules[k].field
                    IN  /\ ret.value.preparedQuery =
                               a.mainQuery \o " WHERE (" \o T \o "." \o F \o " = :" \o k
                                   \o ") ORDER BY " \o T \o ".id DESC, " \o T
                                   \o ".created_at DESC OFFSET :offset LIMIT :perPage"
                        /\ ret.value.bindings =
                               [offset |-> 0, perPage |-> 25] @@ (k :> a.filters[1][2])

C9_Witness ==
    /\ call.op = "prepareSQLQuery"
    /\ pc = "returned"
    /\ call.args.where = <<>>
    /\ call.args.meta = nullObject
    /\ call.args.filters = <<<<"isPublished", 7>>>>
    /\ ret.value.preparedQuery =
           "SELECT * FROM data.articles WHERE (data.articles.is_published = :isPublished)"
               \o " ORDER BY data.articles.id DESC, data.articles.created_at DESC"
               \o " OFFSET :offset LIMIT :perPage"
    /\ ret.value.bindings = [isPublished |-> 7, offset |-> 0, perPage |-> 25]

\* a model of plain columns: every field has one select expression and
\* neither join nor where
onlyColumns(modelSQLField) ==
    \A i \in 1..Len(modelSQLField.fields) :
        LET spec == modelSQLField.fields[i][2]
        IN  DOMAIN spec = {"select"} /\ Len(spec.select) = 1

\* the select expressions of the requested fields, each field once, in the
\* order of the request
RECURSIVE C10_Requested(_, _, _)
C10_Requested(modelSQLField, fields, seen) ==
    IF Len(fields) = 0 THEN <<>>
    ELSE (IF fields[1] \in seen THEN <<>>
          ELSE <<fieldLookup(modelSQLField, fields[1]).select[1]>>)
             \o C10_Requested(modelSQLField, Tail(fields), seen \cup {fields[1]})

\* the select expressions of the requested fields in the order of declaration
RECURSIVE C10_Declared(_, _)
C10_Declared(entries, requested) ==
    IF Len(entries) = 0 THEN <<>>
    ELSE (IF entries[1][1] \in requested THEN <<entries[1][2].select[1]>> ELSE <<>>)
             \o C10_Declared(Tail(entries), requested)

C10_Case ==
    /\ call.op = "postgreSqlBuilder"
    /\ pc = "returned"
    /\ onlyColumns(call.args.modelSQLField)
    /\ \A i \in 1..Len(call.args.fieldsData) :
           call.args.fieldsData[i] \in fieldNames(call.args.modelSQLField)

\* C10 as stated: on a model of plain columns mainQuery is exactly
\* "SELECT <e1>,<e2> FROM <tableName>", the expressions in the order of
\* declaration, and where is empty.
C10_Original ==
    C10_Case =>
        LET a == call.args
            requested == {a.fieldsData[i] : i \in 1..Len(a.fieldsData)}
        IN  /\ ret.value.mainQuery =
                   "SELECT " \o join(C10_Declared(a.modelSQLField.fields, requested), ",")
                       \o " FROM " \o a.modelSQLField.tableName
            /\ ret.value.where = <<>>

\* C10 amended: on a model of plain columns mainQuery is "SELECT ", the
\* select expressions of the requested fields in the order of the request
\* (a repeated field once) joined by ",\n", " FROM ", the table name and a
\* trailing blank; where is empty.
C10_ColumnOnlyMainQuery ==
    C10_Case =>
        LET a == call.args
        IN  /\ ret.value.mainQuery =
                   "SELECT " \o join(C10_Requested(a.modelSQLField, a.fieldsData, {}), ",\n")
                       \o " FROM " \o a.modelSQLField.tableName \o " "
            /\ ret.value.where = <<>>

C10_Witness ==
    /\ call.op = "postgreSqlBuilder"
    /\ pc = "returned"
    /\ call.args.modelSQLField = tagSQLFields
    /\ call.args.fieldsData = <<"id", "name">>
    /\ ret.value.mainQuery = "SELECT t.id,\nt.name FROM data.tags t "

\* the requested fields of a returned postgreSqlBuilder call
requestedFields == {call.args.fieldsData[i] : i \in 1..Len(call.args.fieldsData)}

\* the field is requested with nested fields and is a relation of the model
compiledAsSubQuery(a, field) ==
    /\ has(a.relatedFieldsData, field)
    /\ Len(a.relatedFieldsData[field]) > 0
    /\ has(fieldLookup(a.modelSQLField, field), "relation")

\* the queries of a condition list
whereQueries(where) == {where[i].query : i \in {j \in 1..Len(where) : has(where[j], "query")}}

\* the bindings of a condition list, merged
whereBindingsOf(where) == whereConditionsBindings(where, nullObject)

\* C11: a relation field f requested with nested fields adds exactly one
\* SELECT item: "(SELECT jsonb_agg(f_alias) FROM (<subquery>) AS f_alias) AS f"
\* for type [], the same with to_jsonb for type {}, <subquery> being the
\* related model's SELECT with the relation's where in its WHERE clause; f is
\* not handled as a column (its where does not reach the outer conditions),
\* and the bindings of the subquery are in the outer binding fragment.
C11_RelationSubQuery ==
    (call.op = "postgreSqlBuilder" /\ pc = "returned") =>
        \A f \in requestedFields :
            compiledAsSubQuery(call.args, f) =>
                LET a == call.args
                    spec == fieldLookup(a.modelSQLField, f)
                    related == postgreSqlBuilder(spec.relation, a.relatedFieldsData[f],
                                                 nullObject).value
                    relatedQueries == C9_Conditions(related.where)
                                          \o <<"(" \o spec.where.query \o ")">>
                    subQuery == related.mainQuery \o " WHERE " \o join(relatedQueries, " AND ")
                    fn == IF spec.type = "[]" THEN "jsonb_agg" ELSE "to_jsonb"
                    item == "(SELECT " \o fn \o "(" \o f \o "_alias) FROM (" \o subQuery
                                \o ") AS " \o f \o "_alias) AS " \o f
                IN  /\ spec.type \in {"[]", "{}"}
                    /\ Cardinality(Occurrences(ret.value.mainQuery, item)) = 1
                    /\ Cardinality(Occurrences(ret.value.mainQuery, ") AS " \o f \o "_alias)")) = 1
                    /\ spec.where.query \notin whereQueries(ret.value.where)
                    /\ \A k \in DOMAIN whereBindingsOf(related.where) :
                           /\ k \in DOMAIN whereBindingsOf(ret.value.where)
                           /\ Len(ret.value.where) > 0
                           /\ has(ret.value.where[Len(ret.value.where)], "binding")
                           /\ has(ret.value.where[Len(ret.value.where)].binding, k)

C11_Witness ==
    /\ call.op = "postgreSqlBuilder"
    /\ pc = "returned"
    /\ call.args.modelSQLField = feedbackSQLFields
    /\ call.args.fieldsData = <<"author", "voters">>
    /\ call.args.relatedFieldsData = [author |-> <<"currency">>, voters |-> <<"id", "address">>]
    /\ includes(ret.value.mainQuery, "(SELECT jsonb_agg(voters_alias) FROM (SELECT DISTINCT u.id")
    /\ includes(ret.value.mainQuery, "(SELECT to_jsonb(author_alias) FROM (SELECT COALESCE(")
    /\ ret.value.where = <<[binding |-> [defaultPlatformCurrency |-> 1]]>>

\* the strings of a field's select or join array
itemsOf(spec, key) == IF has(spec, key) THEN {spec[key][i] : i \in 1..Len(spec[key])} ELSE {}

\* C17: an identical SELECT expression, JOIN clause or WHERE query that two
\* different requested fields contribute is emitted exactly once.
C17_DedupByValue ==
    (call.op = "postgreSqlBuilder" /\ pc = "returned") =>
        \A f, g \in requestedFields :
            (f # g /\ ~compiledAsSubQuery(call.args, f) /\ ~compiledAsSubQuery(call.args, g)) =>
                LET sf == fieldLookup(call.args.modelSQLField, f)
                    sg == fieldLookup(call.args.modelSQLField, g)
                    where == ret.value.where
                IN  /\ \A e \in itemsOf(sf, "select") \cap itemsOf(sg, "select") :
                           Cardinality(Occurrences(ret.value.mainQuery, e)) = 1
                    /\ \A e \in itemsOf(sf, "join") \cap itemsOf(sg, "join") :
                           Cardinality(Occurrences(ret.value.mainQuery, e)) = 1
                    /\ (/\ has(sf, "where") /\ has(sg, "where")
                        /\ has(sf.where, "query") /\ has(sg.where, "query")
                        /\ sf.where.query = sg.where.query)
                       => Cardinality({i \in 1..Len(where) :
                              has(where[i], "query") /\ where[i].query = sf.where.query}) = 1

\* C18: the where of a relation field reaches the enclosing query only inside
\* the relation's subquery: it is never one of the outer conditions.
C18_RelationWhereOnlyInSubQuery ==
    (call.op = "postgreSqlBuilder" /\ pc = "returned") =>
        \A f \in requestedFields :
            LET spec == fieldLookup(call.args.modelSQLField, f)
            IN  (has(spec, "relation") /\ has(spec, "where") /\ has(spec.where, "query"))
                    => spec.where.query \notin whereQueries(ret.value.where)

\* C14: with orderRaw supplied the ordering part of the fragment is exactly
\* " " followed by orderRaw, whatever meta.order, meta.orderBy and the table
\* are; with no orderRaw, no meta.orderBy and no table the fragment carries
\* no ORDER BY text at all, only the pagination.
C14_RawOrderReplacesOrdering ==
    (call.op = "createMetaQuery" /\ pc \in {"returned", "threw"}) =>
        LET a == call.args
        IN  /\ a.orderRaw # "" =>
                /\ pc = "returned"
                /\ ret.value.sorting = " " \o a.orderRaw \o pagination
            /\ (/\ a.orderRaw = ""
                /\ ~(has(a.meta, "orderBy") /\ a.meta.orderBy # "")
                /\ a.table = ""
                /\ pc = "returned")
               => (/\ ret.value.sorting = pagination
                   /\ ~includes(ret.value.sorting, "ORDER BY"))

C14_Witness ==
    /\ call.op = "createMetaQuery"
    /\ pc = "returned"
    /\ call.args.orderRaw = "ORDER BY t.year DESC, t.month DESC"
    /\ has(call.args.meta, "order")
    /\ call.args.meta.order = "sideways"
    /\ has(call.args.meta, "orderBy")
    /\ call.args.meta.orderBy = "title"
    /\ call.args.table = "data.articles"
    /\ ret.value.sorting = " ORDER BY t.year DESC, t.month DESC OFFSET :offset LIMIT :perPage"

\* C15: a perPage or offset that is supplied, 0 included, is the value bound;
\* the defaults 25 and 0 stand in only for an omitted parameter.
C15_SuppliedPaginationBound ==
    (call.op = "createMetaQuery" /\ pc = "returned") =>
        LET meta == call.args.meta
            bindings == ret.value.bindings
        IN  /\ bindings.perPage = IF has(meta, "perPage") THEN meta.perPage ELSE PER_PAGE
            /\ bindings.offset = IF has(meta, "offset") THEN meta.offset ELSE OFFSET

\* C16: the bindings of the joined conditions never hold a key offset or
\* perPage, so the merge with the pagination bindings keeps the value of
\* every condition and filter binding.
C16_PaginationKeysReserved ==
    (call.op = "prepareSQLQuery" /\ pc \in {"awaitDB", "returned"}) =>
        /\ {"offset", "perPage"} \cap DOMAIN locals.bindings = {}
        /\ pc = "returned" =>
               \A k \in DOMAIN locals.bindings : ret.value.bindings[k] = locals.bindings[k]

\* C12: filtersHelper yields one fragment per filter key k, in the order of
\* the keys, bound to exactly {k: value}; a rule with a query gives that
\* query with every ":value" renamed ":k", its table and field unused, and
\* only a rule whose query is null gives "<table>.<field> = :k".
C12_OneFragmentPerFilter ==
    (call.op = "filtersHelper" /\ pc = "returned") =>
        LET filters == call.args.filters
            rules == call.args.rules
            where == ret.value
        IN  /\ Len(where) = Len(filters)
            /\ \A i \in 1..Len(filters) :
                   LET k == filters[i][1]
                   IN  /\ where[i].binding = (k :> filters[i][2])
                       /\ has(rules, k) =>
                              IF rules[k].query # null
                              THEN /\ where[i].query = replaceAll(rules[k].query, ":value", ":" \o k)
                                   /\ ~includes(where[i].query, ":value")
                                   /\ ~includes(where[i].query, rules[k].field \o " = :")
                              ELSE where[i].query
                                       = rules[k].table \o "." \o rules[k].field \o " = :" \o k

C12_Witness ==
    /\ call.op = "filtersHelper"
    /\ pc = "returned"
    /\ call.args.filters = <<<<"period", 7>>, <<"isPublished", 1>>>>
    /\ ret.value = <<[query |-> "data.articles.year BETWEEN :period AND :period + 1",
                      binding |-> [period |-> 7]],
                     [query |-> "data.articles.is_published = :isPublished",
                      binding |-> [isPublished |-> 1]]>>

\* what an invocation returns when no other invocation runs and the shared
\* objects are as their owners made them
isolated(c) ==
    LET a == c.args
    IN  IF c.op = "prepareSQLQuery"
        THEN LET sync == prepareSync(Heap0, a)
                 meta == createMetaQuery(deref(Heap0, a.meta), a.sortingTableName, a.orderRaw)
             IN  [preparedQuery |-> sync.preparedQuery \o meta.value.sorting,
                  bindings |-> spread(sync.bindings, meta.value.bindings)]
        ELSE IF c.op = "postgreSqlBuilder"
        THEN postgreSqlBuilder(Heap0[a.modelSQLField], a.fieldsData, a.relatedFieldsData).value
        ELSE createSqlQueryForBuilder(a.mainQuery, Heap0[a.where])

\* C13: whatever prepareSQLQuery, createSqlQueryForBuilder and
\* postgreSqlBuilder calls ran or are suspended, the schemas, the rule table,
\* the base where list, the filter map and meta are as before the calls, and
\* every call returns what it returns when it runs alone.
C13_InputsNeverMutated ==
    calls # <<>> =>
        /\ heap = Heap0
        /\ \A c \in DOMAIN calls :
               calls[c].pc = "returned" =>
                   IF calls[c].op = "postgreSqlBuilder"
                   THEN calls[c].ret.value = isolated(calls[c])
                   ELSE /\ calls[c].ret.value.preparedQuery = isolated(calls[c]).preparedQuery
                        /\ calls[c].ret.value.bindings = isolated(calls[c]).bindings

C13_Witness ==
    /\ calls # <<>>
    /\ calls[1].op = "prepareSQLQuery"
    /\ calls[1].pc = "returned"
    /\ calls[1].args.where = "where"
    /\ calls[1].args.filters = "filters"
    /\ calls[1].ret.value.bindings = [userId |-> 5, month |-> 7, offset |-> 0, perPage |-> 25]
    /\ calls[2].op = "postgreSqlBuilder"
    /\ calls[2].pc = "returned"
    /\ calls[2].args.modelSQLField = "feedbackSQLFields"
    /\ includes(calls[2].ret.value.mainQuery, "WHERE (u.id = f.author_id)")
    /\ heap.where = <<[query |-> "data.articles.user_id = :userId", binding |-> [userId |-> 5]]>>
    /\ heap.feedbackSQLFields = feedbackSQLFields

====
